---- MODULE Spec2Model ----
(***************************************************************************)
(* A model of the RESP codec of codecrafters-redis-rust: src/resp.rs       *)
(* (parse_resp and its helpers), with the byte cursor (bytes::Bytes) as a  *)
(* sequence of byte values 0..255 and anyhow's Result as a record.         *)
(***************************************************************************)
EXTENDS Integers, Sequences, FiniteSets, TLC

(***************************************************************************)
(* Bytes.  A Bytes/String is a sequence of byte values.                    *)
(***************************************************************************)
\* The ASCII bytes the code names.
TagString == 43
TagArray == 42
TagNumber == 58
TagBulk == 36
TagError == 45
CR == 13
LF == 10
Minus == 45
PlusSign == 43
Zero == 48

CRLF == <<CR, LF>>

\* Bytes::split_to(buf, n): the first n bytes (buf keeps DropPrefix(buf, n)).
TakePrefix(b, n) == SubSeq(b, 1, n)

\* What remains of buf after Bytes::split_to(buf, n); also what
\* Bytes::split_off(buf, n) returns (buf then keeps TakePrefix(buf, n)).
DropPrefix(b, n) == SubSeq(b, n + 1, Len(b))

(***************************************************************************)
(* Value (resp.rs:4-11).  One record shape for the five variants:          *)
(*   String(s)            kind "String", s = the text's UTF-8 bytes        *)
(*   Number(n)            kind "Number", n                                 *)
(*   Bulk{size, data}     kind "Bulk",   n = size, s = data                *)
(*   Error(s)             kind "Error",  s = the message                   *)
(*   Array{len, elements} kind "Array",  n = len, elements                 *)
(***************************************************************************)
ValueString(s) == [kind |-> "String", s |-> s, n |-> 0, elements |-> << >>]
ValueNumber(n) == [kind |-> "Number", s |-> << >>, n |-> n, elements |-> << >>]
ValueBulk(size, data) == [kind |-> "Bulk", s |-> data, n |-> size, elements |-> << >>]
ValueError(s) == [kind |-> "Error", s |-> s, n |-> 0, elements |-> << >>]
ValueArray(len, elements) == [kind |-> "Array", s |-> << >>, n |-> len, elements |-> elements]

(***************************************************************************)
(* Result<ParserState>: Ok((value, rest)), Err(error) as bail! and ?       *)
(* return it, or a panic of the calling thread (unwrap on an Err).         *)
(* An error is its message; a and b are the numbers formatted into it.     *)
(***************************************************************************)
NoValue == [kind |-> "None", s |-> << >>, n |-> 0, elements |-> << >>]
NoError == [msg |-> "", a |-> 0, b |-> 0]
Ok(value, rest) == [kind |-> "Ok", value |-> value, rest |-> rest, error |-> NoError]
Err(msg, a, b) ==
    [kind |-> "Err", value |-> NoValue, rest |-> << >>, error |-> [msg |-> msg, a |-> a, b |-> b]]
Panicked == [kind |-> "Panic", value |-> NoValue, rest |-> << >>, error |-> NoError]
NotCalled == [kind |-> "NotCalled", value |-> NoValue, rest |-> << >>, error |-> NoError]

\* The messages of resp.rs.
EmptyBuffer == "empty buffer"
UnknownKind == "parsing failed, unknown kind"
StringNoCrlf == "string parsing failed, could not find '\\r\\n' ending"
BulkNoCrlf == "bulk string failed, could not find '\\r\\n' ending"
BulkOverrun == "bulk string parsing failed, cannot read {a} bytes from buffer of size {b}"
ArrayMissingLen == "array parsing failed, missing 'len'"
BulkMissingSize == "bulk string parsing failed, missing 'size'"
FromUtf8Error == "invalid utf-8 sequence"
TryFromIntError == "out of range integral type conversion attempted"

\* The outcome of one parser function: what it returns and what it leaves in
\* the caller's cursor (buf: &mut Bytes).
Outcome(res, buf) == [res |-> res, buf |-> buf]

\* A mutant of find_crlf: the index of the last CR LF window.
find_crlf_last(buf) ==
    LET hits == {i \in 1..(Len(buf) - 1) : buf[i] = CR /\ buf[i + 1] = LF}
    IN IF hits = {} THEN -1
       ELSE (CHOOSE i \in hits : \A j \in hits : i >= j) - 1

(***************************************************************************)
(* find_crlf (resp.rs:26-28): the index (from 0) of the first CR LF        *)
(* window, or -1 for None.                                                 *)
(***************************************************************************)
find_crlf(buf) ==
    LET hits == {i \in 1..(Len(buf) - 1) : buf[i] = CR /\ buf[i + 1] = LF}
    IN IF hits = {} THEN -1
       ELSE (CHOOSE i \in hits : \A j \in hits : i <= j) - 1

(***************************************************************************)
(* String::from_utf8 (resp.rs:35): whether the bytes are well-formed       *)
(* UTF-8 (the Unicode standard's table of well-formed byte sequences).     *)
(***************************************************************************)
IsCont(b, i, lo, hi) == i <= Len(b) /\ b[i] >= lo /\ b[i] <= hi

RECURSIVE Utf8From(_, _)
Utf8From(b, i) ==
    IF i > Len(b) THEN TRUE
    ELSE LET c == b[i] IN
      CASE c <= 127 -> Utf8From(b, i + 1)
        [] c >= 194 /\ c <= 223 -> IsCont(b, i + 1, 128, 191) /\ Utf8From(b, i + 2)
        [] c = 224 ->
             IsCont(b, i + 1, 160, 191) /\ IsCont(b, i + 2, 128, 191) /\ Utf8From(b, i + 3)
        [] (c >= 225 /\ c <= 236) \/ c = 238 \/ c = 239 ->
             IsCont(b, i + 1, 128, 191) /\ IsCont(b, i + 2, 128, 191) /\ Utf8From(b, i + 3)
        [] c = 237 ->
             IsCont(b, i + 1, 128, 159) /\ IsCont(b, i + 2, 128, 191) /\ Utf8From(b, i + 3)
        [] c = 240 ->
             /\ IsCont(b, i + 1, 144, 191) /\ IsCont(b, i + 2, 128, 191)
             /\ IsCont(b, i + 3, 128, 191) /\ Utf8From(b, i + 4)
        [] c >= 241 /\ c <= 243 ->
             /\ IsCont(b, i + 1, 128, 191) /\ IsCont(b, i + 2, 128, 191)
             /\ IsCont(b, i + 3, 128, 191) /\ Utf8From(b, i + 4)
        [] c = 244 ->
             /\ IsCont(b, i + 1, 128, 143) /\ IsCont(b, i + 2, 128, 191)
             /\ IsCont(b, i + 3, 128, 191) /\ Utf8From(b, i + 4)
        [] OTHER -> FALSE

IsUtf8(b) == Utf8From(b, 1)

(***************************************************************************)
(* i64::from_str_radix(text, 10) (resp.rs:45).  An optional '+' or '-',    *)
(* then one or more decimal digits, the number within i64.  The range is   *)
(* decided on the digits, so no number beyond i64 is ever computed.        *)
(***************************************************************************)
IsDigit(c) == c >= Zero /\ c <= Zero + 9

\* The decimal digits of i64::MAX, 9223372036854775807.
I64MaxDigits == <<9, 2, 2, 3, 3, 7, 2, 0, 3, 6, 8, 5, 4, 7, 7, 5, 8, 0, 7>>

RECURSIVE StripZeros(_)
StripZeros(ds) == IF ds # << >> /\ Head(ds) = 0 THEN StripZeros(Tail(ds)) ELSE ds

\* ds <= lim for digit sequences of one length.
RECURSIVE DigitsLeq(_, _)
DigitsLeq(ds, lim) ==
    IF ds = << >> THEN TRUE
    ELSE IF Head(ds) # Head(lim) THEN Head(ds) < Head(lim)
    ELSE DigitsLeq(Tail(ds), Tail(lim))

\* Whether the magnitude ds fits: i64::MIN has the magnitude i64::MAX + 1.
FitsI64(ds, negative) ==
    LET sig == StripZeros(ds)
        lim == IF negative THEN [I64MaxDigits EXCEPT ![19] = 8] ELSE I64MaxDigits
    IN Len(sig) < 19 \/ (Len(sig) = 19 /\ DigitsLeq(sig, lim))

RECURSIVE DigitsValue(_, _)
DigitsValue(ds, acc) ==
    IF ds = << >> THEN acc ELSE DigitsValue(Tail(ds), acc * 10 + Head(ds))

\* A mutant of from_str_radix: the text parsed as an unsigned number, a
\* sign being no digit.
from_str_radix_unsigned(text) ==
    LET ds == [i \in 1..Len(text) |-> text[i] - Zero] IN
    IF text = << >> \/ \E i \in 1..Len(text) : ~IsDigit(text[i]) \/ ~FitsI64(ds, FALSE)
    THEN [ok |-> FALSE, n |-> 0]
    ELSE [ok |-> TRUE, n |-> DigitsValue(StripZeros(ds), 0)]

\* [ok |-> whether from_str_radix returns Ok, n |-> the number].
from_str_radix(text) ==
    LET signed == text # << >> /\ (Head(text) = Minus \/ Head(text) = PlusSign)
        negative == text # << >> /\ Head(text) = Minus
        digits == IF signed THEN Tail(text) ELSE text
        ds == [i \in 1..Len(digits) |-> digits[i] - Zero]
    IN IF digits = << >> \/ \E i \in 1..Len(digits) : ~IsDigit(digits[i])
       THEN [ok |-> FALSE, n |-> 0]
       ELSE IF ~FitsI64(ds, negative) THEN [ok |-> FALSE, n |-> 0]
       ELSE [ok |-> TRUE,
             n |-> IF negative THEN 0 - DigitsValue(StripZeros(ds), 0)
                   ELSE DigitsValue(StripZeros(ds), 0)]

\* A mutant of parse_string: the leftover starts at the terminator instead
\* of after it.
parse_string_keeps_crlf(buf) ==
    LET pos == find_crlf(buf) IN
    IF pos = -1 THEN Outcome(Err(StringNoCrlf, 0, 0), buf)
    ELSE IF ~IsUtf8(TakePrefix(buf, pos))
         THEN Outcome(Err(FromUtf8Error, 0, 0), DropPrefix(buf, pos))
    ELSE Outcome(Ok(ValueString(TakePrefix(buf, pos)), DropPrefix(buf, pos)), << >>)

\* A mutant of parse_string: a payload with no terminator is taken whole.
parse_string_to_end(buf) ==
    LET pos == find_crlf(buf) IN
    IF pos = -1 THEN Outcome(Ok(ValueString(buf), << >>), << >>)
    ELSE IF ~IsUtf8(TakePrefix(buf, pos))
         THEN Outcome(Err(FromUtf8Error, 0, 0), DropPrefix(buf, pos))
    ELSE Outcome(Ok(ValueString(TakePrefix(buf, pos)), DropPrefix(DropPrefix(buf, pos), 2)),
                 TakePrefix(DropPrefix(buf, pos), 2))

(***************************************************************************)
(* parse_string (resp.rs:32-40).                                           *)
(***************************************************************************)
parse_string(buf) ==
    LET pos == find_crlf(buf) IN
    IF pos = -1 THEN Outcome(Err(StringNoCrlf, 0, 0), buf)
    ELSE IF ~IsUtf8(TakePrefix(buf, pos))
         THEN Outcome(Err(FromUtf8Error, 0, 0), DropPrefix(buf, pos))
    ELSE Outcome(Ok(ValueString(TakePrefix(buf, pos)), DropPrefix(DropPrefix(buf, pos), 2)),
                 TakePrefix(DropPrefix(buf, pos), 2))

(***************************************************************************)
(* parse_number (resp.rs:42-50): parse_string(buf)?, then                  *)
(* from_str_radix(..).unwrap(), which panics on text that is no i64.       *)
(***************************************************************************)
parse_number(buf) ==
    LET str == parse_string(buf) IN
    IF str.res.kind # "Ok" THEN str
    ELSE LET num == from_str_radix(str.res.value.s) IN
         IF ~num.ok THEN Outcome(Panicked, str.buf)
         ELSE Outcome(Ok(ValueNumber(num.n), str.res.rest), str.buf)

\* A mutant of parse_bulk_string: the data is everything before the
\* terminator, filler included.
parse_bulk_string_to_crlf(buf) ==
    IF Len(buf) < 1 THEN Outcome(Err(BulkMissingSize, 0, 0), buf)
    ELSE LET num == parse_number(buf) IN
    IF num.res.kind # "Ok" THEN num
    ELSE LET size == num.res.value.n
             rest == num.res.rest
             buffer_size == Len(rest)
         IN
         IF size > buffer_size - 2 THEN Outcome(Err(BulkOverrun, size, buffer_size), num.buf)
         ELSE IF size < 0 THEN Outcome(Err(TryFromIntError, 0, 0), num.buf)
         ELSE LET end_pos == find_crlf(DropPrefix(rest, size)) IN
              IF end_pos = -1 THEN Outcome(Err(BulkNoCrlf, 0, 0), num.buf)
              ELSE Outcome(Ok(ValueBulk(size, TakePrefix(rest, size + end_pos)),
                              DropPrefix(rest, size + end_pos + 2)),
                           num.buf)

\* A mutant of parse_bulk_string: the size is checked against the buffer's
\* length without the two bytes of the terminator.
parse_bulk_string_no_ending(buf) ==
    IF Len(buf) < 1 THEN Outcome(Err(BulkMissingSize, 0, 0), buf)
    ELSE LET num == parse_number(buf) IN
    IF num.res.kind # "Ok" THEN num
    ELSE LET size == num.res.value.n
             rest == num.res.rest
             buffer_size == Len(rest)
         IN
         IF size > buffer_size THEN Outcome(Err(BulkOverrun, size, buffer_size), num.buf)
         ELSE IF size < 0 THEN Outcome(Err(TryFromIntError, 0, 0), num.buf)
         ELSE LET data == TakePrefix(rest, size)
                  after == DropPrefix(rest, size)
                  end_pos == find_crlf(after)
              IN IF end_pos = -1 THEN Outcome(Err(BulkNoCrlf, 0, 0), num.buf)
                 ELSE Outcome(Ok(ValueBulk(size, data), DropPrefix(after, end_pos + 2)),
                              num.buf)

(***************************************************************************)
(* parse_bulk_string (resp.rs:74-98).                                      *)
(***************************************************************************)
parse_bulk_string(buf) ==
    IF Len(buf) < 1 THEN Outcome(Err(BulkMissingSize, 0, 0), buf)
    ELSE LET num == parse_number(buf) IN
    IF num.res.kind # "Ok" THEN num
    ELSE LET size == num.res.value.n
             rest == num.res.rest
             buffer_size == Len(rest)
         IN
         IF size > buffer_size - 2 THEN Outcome(Err(BulkOverrun, size, buffer_size), num.buf)
         ELSE IF size < 0 THEN Outcome(Err(TryFromIntError, 0, 0), num.buf)
         ELSE LET data == TakePrefix(rest, size)
                  after == DropPrefix(rest, size)
                  end_pos == find_crlf(after)
              IN IF end_pos = -1 THEN Outcome(Err(BulkNoCrlf, 0, 0), num.buf)
                 ELSE Outcome(Ok(ValueBulk(size, data), DropPrefix(after, end_pos + 2)),
                              num.buf)

(***************************************************************************)
(* parse_resp (resp.rs:104-116) and parse_array (resp.rs:52-72), which     *)
(* call each other.  parse_elements is the for loop of parse_array: todo   *)
(* iterations left, the running leftover_data and the elements pushed.     *)
(***************************************************************************)
RECURSIVE parse_resp(_), parse_array(_), parse_elements(_, _, _, _)

\* A mutant of parse_elements: the loop runs the absolute value of len times.
parse_elements_abs(len, todo, leftover_data, elements) ==
    LET left == IF todo < 0 THEN 0 - todo ELSE todo IN
    IF left = 0 THEN Ok(ValueArray(len, elements), leftover_data)
    ELSE LET element == parse_resp(leftover_data).res IN
         IF element.kind # "Ok" THEN element
         ELSE parse_elements(len, left - 1, element.rest, Append(elements, element.value))

\* A mutant of parse_elements: a child that finds the buffer empty ends the
\* loop, and the elements parsed so far are returned.
parse_elements_partial(len, todo, leftover_data, elements) ==
    IF todo <= 0 THEN Ok(ValueArray(len, elements), leftover_data)
    ELSE LET element == parse_resp(leftover_data).res IN
         IF element.kind = "Err" /\ element.error.msg = EmptyBuffer
         THEN Ok(ValueArray(len, elements), leftover_data)
         ELSE IF element.kind # "Ok" THEN element
         ELSE parse_elements(len, todo - 1, element.rest, Append(elements, element.value))

\* A mutant of parse_elements: the loop does not move on to the leftover of
\* the element it parsed.
parse_elements_no_advance(len, todo, leftover_data, elements) ==
    IF todo <= 0 THEN Ok(ValueArray(len, elements), leftover_data)
    ELSE LET element == parse_resp(leftover_data).res IN
         IF element.kind # "Ok" THEN element
         ELSE parse_elements(len, todo - 1, leftover_data, Append(elements, element.value))

parse_elements(len, todo, leftover_data, elements) ==
    IF todo <= 0 THEN Ok(ValueArray(len, elements), leftover_data)
    ELSE LET element == parse_resp(leftover_data).res IN
         IF element.kind # "Ok" THEN element
         ELSE parse_elements(len, todo - 1, element.rest, Append(elements, element.value))

parse_array(buf) ==
    IF Len(buf) < 1 THEN Outcome(Err(ArrayMissingLen, 0, 0), buf)
    ELSE LET num == parse_number(buf) IN
    IF num.res.kind # "Ok" THEN num
    ELSE Outcome(parse_elements(num.res.value.n, num.res.value.n, num.res.rest, << >>),
                 num.buf)

\* A mutant of parse_resp: the tag is read without being consumed, and is
\* split off only once its kind is known.
parse_resp_peek(buf) ==
    IF Len(buf) < 1 THEN Outcome(Err(EmptyBuffer, 0, 0), buf)
    ELSE LET kind == Head(buf)
             tail == DropPrefix(buf, 1)
         IN CASE kind = TagString -> parse_string(tail)
              [] kind = TagArray -> parse_array(tail)
              [] kind = TagNumber -> parse_number(tail)
              [] kind = TagBulk -> parse_bulk_string(tail)
              [] OTHER -> Outcome(Err(UnknownKind, kind, 0), buf)

parse_resp(buf) ==
    IF Len(buf) < 1 THEN Outcome(Err(EmptyBuffer, 0, 0), buf)
    ELSE LET kind == Head(buf)
             tail == DropPrefix(buf, 1)
         IN CASE kind = TagString -> parse_string(tail)
              [] kind = TagArray -> parse_array(tail)
              [] kind = TagNumber -> parse_number(tail)
              [] kind = TagBulk -> parse_bulk_string(tail)
              [] OTHER -> Outcome(Err(UnknownKind, kind, 0), tail)

(***************************************************************************)
(* The calls of Bytes::split_to and Bytes::split_off the parser makes on   *)
(* its cursors, in the order it makes them: each with the count it asks    *)
(* for and the length of the cursor it asks it of.  Both panic on a count   *)
(* above that length.                                                      *)
(***************************************************************************)
Split(n, len) == [n |-> n, len |-> len]

\* parse_string: split_to(buf, pos), and split_off(buf, 2) once the text
\* before pos has proved UTF-8.
splits_string(buf) ==
    LET pos == find_crlf(buf) IN
    IF pos = -1 THEN << >>
    ELSE IF ~IsUtf8(TakePrefix(buf, pos)) THEN <<Split(pos, Len(buf))>>
    ELSE <<Split(pos, Len(buf)), Split(2, Len(buf) - pos)>>

\* A mutant of splits_bulk_string: the size is not compared with the bytes
\* that follow the size line before the data is split off.
splits_bulk_string_unchecked(buf) ==
    IF Len(buf) < 1 THEN << >>
    ELSE LET num == parse_number(buf).res
             DataSplit(size, rest) ==
                 IF size < 0 THEN << >>
                 ELSE <<Split(size, Len(rest))>>
         IN splits_string(buf)
                \o (IF num.kind # "Ok" THEN << >> ELSE DataSplit(num.value.n, num.rest))

\* A mutant of splits_bulk_string: a negative size is handed to split_to as
\* it is.
splits_bulk_string_signed(buf) ==
    IF Len(buf) < 1 THEN << >>
    ELSE LET num == parse_number(buf).res
             DataSplit(size, rest) ==
                 IF size > Len(rest) - 2 THEN << >>
                 ELSE <<Split(size, Len(rest))>>
         IN splits_string(buf)
                \o (IF num.kind # "Ok" THEN << >> ELSE DataSplit(num.value.n, num.rest))

\* parse_bulk_string: those of parse_number's parse_string, then
\* split_to(&mut rest, size.try_into()?) past the size check and
\* split_off(&mut rest, end_pos + 2) when a terminator is found.
splits_bulk_string(buf) ==
    IF Len(buf) < 1 THEN << >>
    ELSE LET num == parse_number(buf).res
             Ending(after, end_pos) ==
                 IF end_pos = -1 THEN << >> ELSE <<Split(end_pos + 2, Len(after))>>
             DataSplit(size, rest) ==
                 IF size > Len(rest) - 2 THEN << >>
                 ELSE IF size < 0 THEN << >>
                 ELSE <<Split(size, Len(rest))>>
                          \o Ending(DropPrefix(rest, size), find_crlf(DropPrefix(rest, size)))
         IN splits_string(buf)
                \o (IF num.kind # "Ok" THEN << >> ELSE DataSplit(num.value.n, num.rest))

RECURSIVE splits_resp(_), splits_elements(_, _)

\* parse_array's loop: those of each parse_resp call it makes.
splits_elements(todo, leftover_data) ==
    IF todo <= 0 THEN << >>
    ELSE LET Then(element) ==
                 IF element.kind # "Ok" THEN << >>
                 ELSE splits_elements(todo - 1, element.rest)
         IN splits_resp(leftover_data) \o Then(parse_resp(leftover_data).res)

\* parse_array: those of parse_number's parse_string, then the loop's.
splits_array(buf) ==
    IF Len(buf) < 1 THEN << >>
    ELSE LET Loop(num) ==
                 IF num.kind # "Ok" THEN << >> ELSE splits_elements(num.value.n, num.rest)
         IN splits_string(buf) \o Loop(parse_number(buf).res)

\* A mutant of splits_resp: the tag is split off a buffer that may be empty.
splits_resp_unchecked(buf) ==
    <<Split(1, Len(buf))>>

\* parse_resp: split_to(buf, 1) of a buffer that is not empty, then those of
\* the function the tag selects.
splits_resp(buf) ==
    IF Len(buf) < 1 THEN << >>
    ELSE LET kind == Head(buf)
             tail == DropPrefix(buf, 1)
         IN <<Split(1, Len(buf))>>
                \o (CASE kind = TagString -> splits_string(tail)
                      [] kind = TagArray -> splits_array(tail)
                      [] kind = TagNumber -> splits_string(tail)
                      [] kind = TagBulk -> splits_bulk_string(tail)
                      [] OTHER -> << >>)

(***************************************************************************)
(* The wire encoding a client writes, as main.rs writes its replies and    *)
(* the tests of resp.rs spell their inputs.  format!("{}", n) of an i64.   *)
(***************************************************************************)
RECURSIVE DecimalDigits(_)
DecimalDigits(n) ==
    IF n < 10 THEN <<Zero + n>> ELSE Append(DecimalDigits(n \div 10), Zero + (n % 10))

FormatI64(n) == IF n < 0 THEN <<Minus>> \o DecimalDigits(0 - n) ELSE DecimalDigits(n)

RECURSIVE Encode(_), EncodeAll(_)
Encode(v) ==
    CASE v.kind = "String" -> <<TagString>> \o v.s \o CRLF
      [] v.kind = "Error" -> <<TagError>> \o v.s \o CRLF
      [] v.kind = "Number" -> <<TagNumber>> \o FormatI64(v.n) \o CRLF
      [] v.kind = "Bulk" -> <<TagBulk>> \o FormatI64(v.n) \o CRLF \o v.s \o CRLF
      [] v.kind = "Array" -> <<TagArray>> \o FormatI64(v.n) \o CRLF \o EncodeAll(v.elements)

EncodeAll(vs) == IF vs = << >> THEN << >> ELSE Encode(Head(vs)) \o EncodeAll(Tail(vs))

(***************************************************************************)
(* The inputs.  A client sends a pipeline of values with at most MaxNodes  *)
(* nodes in all (a leaf or an array is one node), the last MaxCut or fewer *)
(* bytes of which may be missing from the read; or one value of a wider    *)
(* kind; or any MaxRaw or fewer bytes; or an input the tests spell out.    *)
(***************************************************************************)
MaxNodes == 3
MaxCut == 2
MaxRaw == 3

\* The leaves pipelines and arrays are built of.
Leaves ==
    { ValueString(<<97>>), ValueError(<<101>>), ValueNumber(-1), ValueBulk(1, <<97>>) }

\* Values sent alone: numbers of several digits, texts with a CR, an LF or a
\* CR LF inside, bulk strings whose size is not their data's length.
WideLeaves ==
    { ValueString(<< >>), ValueString(<<195, 169>>), ValueString(<<97, CR>>),
      ValueString(<<97, CR, LF, 98>>), ValueError(<< >>),
      ValueNumber(0), ValueNumber(10), ValueNumber(-120),
      ValueBulk(0, << >>), ValueBulk(2, CRLF), ValueBulk(1, <<97, 98>>),
      ValueBulk(1, <<97, 98, 99>>), ValueBulk(0, <<97, 98>>), ValueBulk(3, <<97>>),
      ValueBulk(-1, << >>), ValueBulk(-1, <<97>>), ValueBulk(1, <<255>>) }

\* The lengths an array of k elements is declared with: its own, one more,
\* and a negative one.
DeclaredLens(k) == {k, k + 1, -1}

RECURSIVE Trees(_), Forests(_)
\* The values of exactly n nodes.
Trees(n) ==
    IF n = 1 THEN Leaves \cup {ValueArray(len, << >>) : len \in DeclaredLens(0)}
    ELSE UNION {{ValueArray(len, f) : len \in DeclaredLens(Len(f))} : f \in Forests(n - 1)}

\* The sequences of values of exactly n nodes in all.
Forests(n) ==
    IF n = 0 THEN {<< >>}
    ELSE UNION {{<<t>> \o f : t \in Trees(k), f \in Forests(n - k)} : k \in 1..n}

Pipelines == UNION {Forests(n) : n \in 1..MaxNodes} \cup {<<v>> : v \in WideLeaves}

RawBytes == {TagString, TagArray, TagNumber, TagBulk, Minus, CR, LF, 49, 97, 255}

RawInputs == UNION {[1..n -> RawBytes] : n \in 0..MaxRaw}

TestInputs ==
    {
      \* it_parses_a_string: b'+Test\r\n+Foo\r\n'
      <<43, 84, 101, 115, 116, 13, 10, 43, 70, 111, 111, 13, 10>>,
      \* it_parses_an_empty_array: b'*0\r\n'
      <<42, 48, 13, 10>>,
      \* it_parses_a_string_array: b'*2\r\n+hello\r\n+world\r\n'
      <<42, 50, 13, 10, 43, 104, 101, 108, 108, 111, 13, 10, 43, 119, 111, 114, 108, 100, 13, 10>>,
      \* it_parses_a_number_array: b'*3\r\n:1\r\n:2\r\n:3\r\n'
      <<42, 51, 13, 10, 58, 49, 13, 10, 58, 50, 13, 10, 58, 51, 13, 10>>,
      \* it_parses_a_mixed_array: b'*2\r\n:1\r\n+hello\r\n'
      <<42, 50, 13, 10, 58, 49, 13, 10, 43, 104, 101, 108, 108, 111, 13, 10>>,
      \* it_parses_a_bulk_string: b'$5\r\nhello\r\n'
      <<36, 53, 13, 10, 104, 101, 108, 108, 111, 13, 10>>,
      \* it_parses_a_bulk_string_ignoring_extra_data: b'$5\r\nhello world\r\n'
      <<36, 53, 13, 10, 104, 101, 108, 108, 111, 32, 119, 111, 114, 108, 100, 13, 10>>,
      \* it_returns_an_error_if_reading_a_bulk_string_goes_out_of_bound: b'$5\r\nh'
      <<36, 53, 13, 10, 104>>,
      \* ..._accounting_for_ending: b'$5\r\nh\r\n'
      <<36, 53, 13, 10, 104, 13, 10>>,
      \* it_returns_an_error_on_invalid_length_array: b'*2\r\n+hello\r\n'
      <<42, 50, 13, 10, 43, 104, 101, 108, 108, 111, 13, 10>>,
      \* it_parses_a_number: b':1000\r\n'
      <<58, 49, 48, 48, 48, 13, 10>>,
      \* it_parses_a_negative_number: b':-1000\r\n'
      <<58, 45, 49, 48, 48, 48, 13, 10>>,
      \* it_returns_an_error_on_missing_crlf: b'+Test'
      <<43, 84, 101, 115, 116>>,
      \* it_returns_an_error_on_unknown_kind: b')Foo\r\n'
      <<41, 70, 111, 111, 13, 10>>
    }

EdgeInputs ==
    {
      \* a number that is no number: b':abc\r\n'
      <<58, 97, 98, 99, 13, 10>>,
      \* a number with a plus sign: b':+12\r\n'
      <<58, 43, 49, 50, 13, 10>>,
      \* a number with leading zeros: b':-007\r\n'
      <<58, 45, 48, 48, 55, 13, 10>>,
      \* i64::MAX + 1: b':9223372036854775808\r\n'
      <<58, 57, 50, 50, 51, 51, 55, 50, 48, 51, 54, 56, 53, 52, 55, 55, 53, 56, 48, 56, 13, 10>>,
      \* a bulk size that is no number: b'$x\r\nab\r\n'
      <<36, 120, 13, 10, 97, 98, 13, 10>>,
      \* an array length that is a lone sign: b'*-\r\n+a\r\n'
      <<42, 45, 13, 10, 43, 97, 13, 10>>,
      \* a string of two-byte UTF-8: b'+\xc3\xa9\r\n'
      <<43, 195, 169, 13, 10>>,
      \* a string that is not UTF-8: b'+\xff\r\n'
      <<43, 255, 13, 10>>,
      \* a bulk string of bytes that are not UTF-8: b'$1\r\n\xff\r\n'
      <<36, 49, 13, 10, 255, 13, 10>>,
      \* a bulk string with no terminator after its data: b'$1\r\nabc'
      <<36, 49, 13, 10, 97, 98, 99>>,
      \* a command as a client sends it: b'*2\r\n$4\r\nECHO\r\n$2\r\nhi\r\n'
      <<42, 50, 13, 10, 36, 52, 13, 10, 69, 67, 72, 79, 13, 10, 36, 50, 13, 10, 104, 105, 13, 10>>,
      \* a command array one element short: b'*2\r\n$4\r\nPING\r\n'
      <<42, 50, 13, 10, 36, 52, 13, 10, 80, 73, 78, 71, 13, 10>>,
      \* an array declared longer than the bytes that follow: b'*9\r\n+\r\n'
      <<42, 57, 13, 10, 43, 13, 10>>,
      \* an array declared with a million elements: b'*1000000\r\n'
      <<42, 49, 48, 48, 48, 48, 48, 48, 13, 10>>
    }

(***************************************************************************)
(* The transport.  A connection's socket is the events its successive      *)
(* reads meet: bytes that arrived, the peer's close (a read of zero bytes)  *)
(* or an I/O error.  One read_buf into a buffer of spare capacity n takes  *)
(* at most n of the bytes that arrived and leaves the others in the socket. *)
(***************************************************************************)
ReadCapacity == 32

Data(bytes) == [kind |-> "data", bytes |-> bytes]
Eof == [kind |-> "eof", bytes |-> << >>]
IoError == [kind |-> "error", bytes |-> << >>]

\* The bytes one read_buf call appends to a buffer of spare capacity n.
read_buf(socket, n) ==
    IF Len(Head(socket).bytes) > n THEN TakePrefix(Head(socket).bytes, n)
    ELSE Head(socket).bytes

\* The socket after that call.
AfterRead(socket, n) ==
    IF Len(Head(socket).bytes) > n
    THEN <<Data(DropPrefix(Head(socket).bytes, n))>> \o Tail(socket)
    ELSE Tail(socket)

\* What a task did in its last step: the bytes it read, what parse_resp
\* returned for them, the bytes it wrote and the branch it took.
Iteration(read, parse, wrote, branch) ==
    [read |-> read, parse |-> parse, wrote |-> wrote, branch |-> branch]

NoIteration == Iteration(<< >>, NotCalled, << >>, "none")

(***************************************************************************)
(* connection.rs.  The messages, and String::to_ascii_uppercase: the bytes  *)
(* a..z become A..Z, every other byte stays.                                *)
(***************************************************************************)
ClientClosed == "client closed connection"
IoFailure == "io error"
EmptyCommand == "invalid command, array should have at least one element"
NoCommandName == "could not get command"
NotAString == "value {:?} cannot be converted to string"
NotAnArray == "unexpected value {:?} when reading command, expected an array"

LowerA == 97
LowerZ == 122
UpperA == 65

\* A mutant of to_ascii_uppercase: the text is returned as it is.
to_ascii_uppercase_kept(s) == s

to_ascii_uppercase(s) ==
    [i \in 1..Len(s) |->
        IF s[i] >= LowerA /\ s[i] <= LowerZ THEN s[i] - (LowerA - UpperA) ELSE s[i]]

\* Value::as_string (resp.rs:13-24): Ok(text) or Err(error).
as_string(v) ==
    CASE v.kind = "String" -> [ok |-> TRUE, s |-> v.s, error |-> NoError]
      [] v.kind = "Bulk" ->
           IF IsUtf8(v.s) THEN [ok |-> TRUE, s |-> v.s, error |-> NoError]
           ELSE [ok |-> FALSE, s |-> << >>, error |-> Err(FromUtf8Error, 0, 0).error]
      [] OTHER -> [ok |-> FALSE, s |-> << >>, error |-> Err(NotAString, 0, 0).error]

\* A mutant of NewBuffer: the leftover of the call before is kept in front.
NewBuffer_keeps_leftover(previous) == previous.parse.rest

\* A mutant of NewBuffer: the bytes the call before could not parse are kept
\* in front.
NewBuffer_keeps_unparsed(previous) ==
    IF previous.parse.kind = "Err" THEN previous.read ELSE << >>

\* let mut buffer = BytesMut::with_capacity(32): each call reads into a new,
\* empty buffer, whatever the call before it (its read, its parse) left.
NewBuffer(previous) == << >>

(***************************************************************************)
(* Connection::read_value on a socket whose next event is there.  ret is    *)
(* what it returns (a value, rest empty: the leftover is only counted in a  *)
(* warning), buffer the bytes it handed to parse_resp, parse what           *)
(* parse_resp returned and cursor what it left of the buffer.               *)
(***************************************************************************)
read_value(socket, previous) ==
    LET Returned(ret, buffer, parse, cursor) ==
            [ret |-> ret, buffer |-> buffer, parse |-> parse, cursor |-> cursor]
        Parsed(buffer, out) ==
            Returned(IF out.res.kind = "Ok" THEN Ok(out.res.value, << >>) ELSE out.res,
                     buffer, out.res, out.buf)
        Read(empty, bytes_read) ==
            IF Len(bytes_read) = 0
            THEN Returned(Err(ClientClosed, 0, 0), empty, NotCalled, empty)
            ELSE Parsed(empty \o bytes_read, parse_resp(empty \o bytes_read))
        Into(empty) ==
            IF Head(socket).kind = "error"
            THEN Returned(Err(IoFailure, 0, 0), empty, NotCalled, empty)
            ELSE Read(empty, read_buf(socket, ReadCapacity - Len(empty)))
    IN Into(NewBuffer(previous))

(***************************************************************************)
(* Result<(String, Arguments)>, or a panic of the calling task.            *)
(***************************************************************************)
CommandOk(name, args) == [kind |-> "Ok", name |-> name, args |-> args, error |-> NoError]
CommandErr(error) == [kind |-> "Err", name |-> << >>, args |-> << >>, error |-> error]
CommandPanicked == [kind |-> "Panic", name |-> << >>, args |-> << >>, error |-> NoError]
NoCommand == [kind |-> "NotCalled", name |-> << >>, args |-> << >>, error |-> NoError]

\* A mutant of read_command: the command name stays among the arguments.
read_command_keeps_name(ret) ==
    CASE ret.kind = "Err" -> CommandErr(ret.error)
      [] ret.kind = "Panic" -> CommandPanicked
      [] ret.value.kind # "Array" -> CommandErr(Err(NotAnArray, 0, 0).error)
      [] ret.value.n < 1 -> CommandErr(Err(EmptyCommand, 0, 0).error)
      [] Len(ret.value.elements) < 1 -> CommandPanicked
      [] OTHER ->
           LET command_name == as_string(Head(ret.value.elements)) IN
           IF ~command_name.ok THEN CommandErr(command_name.error)
           ELSE CommandOk(to_ascii_uppercase(command_name.s), ret.value.elements)

\* A mutant of read_command: an array declared empty is read as a command.
read_command_any_len(ret) ==
    CASE ret.kind = "Err" -> CommandErr(ret.error)
      [] ret.kind = "Panic" -> CommandPanicked
      [] ret.value.kind # "Array" -> CommandErr(Err(NotAnArray, 0, 0).error)
      [] Len(ret.value.elements) < 1 -> CommandOk(<< >>, << >>)
      [] OTHER ->
           LET command_name == as_string(Head(ret.value.elements)) IN
           IF ~command_name.ok THEN CommandErr(command_name.error)
           ELSE CommandOk(to_ascii_uppercase(command_name.s), Tail(ret.value.elements))

\* Connection::read_command on what its read_value call returned:
\* elements.drain(0..1) panics on a vector of no element.
read_command(ret) ==
    CASE ret.kind = "Err" -> CommandErr(ret.error)
      [] ret.kind = "Panic" -> CommandPanicked
      [] ret.value.kind # "Array" -> CommandErr(Err(NotAnArray, 0, 0).error)
      [] ret.value.n < 1 -> CommandErr(Err(EmptyCommand, 0, 0).error)
      [] Len(ret.value.elements) < 1 -> CommandPanicked
      [] OTHER ->
           LET command_name == as_string(Head(ret.value.elements)) IN
           IF ~command_name.ok THEN CommandErr(command_name.error)
           ELSE CommandOk(to_ascii_uppercase(command_name.s), Tail(ret.value.elements))

(***************************************************************************)
(* main.rs.  The replies of handle_client, and str::to_uppercase on the    *)
(* command names clients send here, which are ASCII: a..z become A..Z.     *)
(***************************************************************************)
Pong == <<43, 80, 79, 78, 71, 13, 10>>
OkReply == <<43, 79, 75, 13, 10>>
WrongArguments ==
    <<45, 119, 114, 111, 110, 103, 32, 110, 117, 109, 98, 101, 114, 32, 111, 102, 32,
      97, 114, 103, 117, 109, 101, 110, 116, 115, 32, 102, 111, 114, 32,
      99, 111, 109, 109, 97, 110, 100, 13, 10>>

CommandPing == <<80, 73, 78, 71>>
CommandEcho == <<69, 67, 72, 79>>

to_uppercase(s) ==
    [i \in 1..Len(s) |->
        IF s[i] >= LowerA /\ s[i] <= LowerZ THEN s[i] - (LowerA - UpperA) ELSE s[i]]

\* A mutant of EchoReply: the size line is the only thing written.
EchoReply_size_only(reply_data) ==
    <<TagBulk>> \o FormatI64(Len(reply_data)) \o CRLF

\* The three writes of the ECHO branch: format!("${}\r\n", reply_data.len()),
\* reply_data, b"\r\n".
EchoReply(reply_data) ==
    <<TagBulk>> \o FormatI64(Len(reply_data)) \o CRLF \o reply_data \o CRLF

\* The branches of handle_client's loop that panic, and the one that breaks.
Panics ==
    {"read error", "parse panic", "no first element", "name not utf-8", "ECHO: no argument"}

Breaks == {"closed"}

(***************************************************************************)
(* One pass of handle_client's loop on a socket whose next event is there.  *)
(* main.rs matches what parse_resp returns against (Array, _) and (value,   *)
(* _): a returned failure is no Array and takes the second arm.            *)
(***************************************************************************)
handle_client(socket) ==
    LET Command(buffer, parse, elements, command) ==
            IF command = CommandPing THEN Iteration(buffer, parse, Pong, "PING")
            ELSE IF command = CommandEcho
                THEN IF Len(elements) > 2
                         THEN Iteration(buffer, parse, WrongArguments, "ECHO: arguments")
                     ELSE IF Len(elements) < 2
                         THEN Iteration(buffer, parse, << >>, "ECHO: no argument")
                     ELSE IF elements[2].kind = "Bulk"
                         THEN Iteration(buffer, parse, EchoReply(elements[2].s), "ECHO")
                     ELSE Iteration(buffer, parse, << >>, "ECHO: not bulk")
            ELSE Iteration(buffer, parse, OkReply, "unhandled")
        Array(buffer, parse, len, elements) ==
            IF len < 1 THEN Iteration(buffer, parse, << >>, "empty array")
            ELSE IF Len(elements) < 1 THEN Iteration(buffer, parse, << >>, "no first element")
            ELSE IF elements[1].kind # "Bulk"
                THEN Iteration(buffer, parse, << >>, "name not bulk")
            ELSE IF ~IsUtf8(elements[1].s)
                THEN Iteration(buffer, parse, << >>, "name not utf-8")
            ELSE Command(buffer, parse, elements, to_uppercase(elements[1].s))
        Match(buffer, parse) ==
            IF parse.kind = "Panic" THEN Iteration(buffer, parse, << >>, "parse panic")
            ELSE IF parse.kind = "Err" THEN Iteration(buffer, parse, << >>, "parse failure")
            ELSE IF parse.value.kind # "Array"
                THEN Iteration(buffer, parse, << >>, "not an array")
            ELSE Array(buffer, parse, parse.value.n, parse.value.elements)
        Read(buffer) ==
            IF Len(buffer) = 0 THEN Iteration(buffer, NotCalled, << >>, "closed")
            ELSE Match(buffer, parse_resp(buffer).res)
    IN IF Head(socket).kind = "error"
           THEN Iteration(<< >>, NotCalled, << >>, "read error")
       ELSE Read(read_buf(socket, ReadCapacity))

(***************************************************************************)
(* The state: a caller of parse_resp as the tests and parse_array's loop   *)
(* are, parsing a buffer and then the leftover of each success; and the    *)
(* connections of the server, each with its socket and the task serving it. *)
(***************************************************************************)
NumConns == 2

Conns == 1..NumConns

VARIABLES
    sent,     \* the values the client encoded (<< >> for bytes of no value)
    input,    \* the bytes of the read buffer
    arg,      \* the cursor's bytes at the entry of the last parse_resp call
    buf,      \* the cursor (buf: &mut Bytes) after the last call
    result,   \* what the last call returned
    parsed,   \* the values the successful calls returned, in order
    calls,    \* the number of parse_resp calls the caller has made
    sockets,  \* per connection, the events its reads have yet to meet
    reads,    \* per connection, the bytes each of its reads received, in order
    written,  \* per connection, the bytes written to its socket
    task,     \* per connection, "idle", "running", "ended" or "panicked"
    last,     \* per connection, the last step of its task
    cmd       \* what the last read_command call returned

parserVars == <<sent, input, arg, buf, result, parsed, calls>>

connVars == <<sockets, reads, written, task, last, cmd>>

vars == <<sent, input, arg, buf, result, parsed, calls,
          sockets, reads, written, task, last, cmd>>

\* No connection has been accepted and no socket holds anything.
NoConnections ==
    /\ sockets = [c \in Conns |-> << >>]
    /\ reads = [c \in Conns |-> << >>]
    /\ written = [c \in Conns |-> << >>]
    /\ task = [c \in Conns |-> "idle"]
    /\ last = [c \in Conns |-> NoIteration]
    /\ cmd = NoCommand

Init ==
    /\ \/ \E p \in Pipelines : \E cut \in 0..MaxCut :
            /\ cut <= Len(EncodeAll(p))
            /\ sent = p
            /\ input = TakePrefix(EncodeAll(p), Len(EncodeAll(p)) - cut)
       \/ /\ sent = << >>
          /\ input \in RawInputs \cup TestInputs \cup EdgeInputs
    /\ arg = input
    /\ buf = input
    /\ result = NotCalled
    /\ parsed = << >>
    /\ calls = 0
    /\ NoConnections

\* One call parse_resp(&mut cursor) on the bytes b.
Call(b) ==
    LET out == parse_resp(b) IN
    /\ arg' = b
    /\ buf' = out.buf
    /\ result' = out.res
    /\ parsed' = IF out.res.kind = "Ok" THEN Append(parsed, out.res.value) ELSE parsed
    /\ calls' = calls + 1
    /\ UNCHANGED <<sent, input>>
    /\ UNCHANGED connVars

\* The first call, on the buffer as read (connection.rs:27, the tests).
ParseBuffer == result.kind = "NotCalled" /\ Call(input)

\* A further call on the leftover a success returned (resp.rs:63-64).
ParseLeftover == result.kind = "Ok" /\ Call(result.rest)

Next == ParseBuffer \/ ParseLeftover

Spec == Init /\ [][Next]_vars

(***************************************************************************)
(* The commands clients send, as values and as the bytes of their sockets. *)
(***************************************************************************)
PING == <<80, 73, 78, 71>>
LowerPing == <<112, 105, 110, 103>>
MixedPing == <<80, 105, 78, 103>>
ECHO == <<69, 67, 72, 79>>
LowerEcho == <<101, 99, 104, 111>>
LowerGet == <<103, 101, 116>>
Hi == <<104, 105>>
HelloWorld == <<104, 101, 108, 108, 111, 32, 119, 111, 114, 108, 100, 33>>
TenLetters == <<97, 98, 99, 100, 101, 102, 103, 104, 105, 106>>

PingCommand == ValueArray(1, <<ValueBulk(4, PING)>>)
EchoCommand == ValueArray(2, <<ValueBulk(4, ECHO), ValueBulk(2, Hi)>>)

CommandValues ==
    { PingCommand,
      ValueArray(1, <<ValueBulk(4, LowerPing)>>),
      ValueArray(1, <<ValueString(MixedPing)>>),
      EchoCommand,
      ValueArray(2, <<ValueBulk(4, LowerEcho), ValueBulk(1, <<97>>)>>),
      ValueArray(2, <<ValueString(LowerEcho), ValueBulk(1, <<97>>)>>),
      ValueArray(1, <<ValueBulk(4, ECHO)>>),
      ValueArray(3, <<ValueBulk(4, ECHO), ValueBulk(1, <<97>>), ValueBulk(1, <<98>>)>>),
      ValueArray(2, <<ValueBulk(4, ECHO), ValueNumber(-1)>>),
      ValueArray(2, <<ValueBulk(4, ECHO), ValueBulk(12, HelloWorld)>>),
      ValueArray(2, <<ValueBulk(3, LowerGet), ValueString(<<107>>)>>),
      ValueArray(3, <<ValueString(LowerGet), ValueNumber(10), ValueArray(0, << >>)>>),
      ValueArray(1, <<ValueBulk(1, <<255>>)>>) }

\* What one client sends on its connection: one command, or two at once.
CommandPipelines ==
    {<<v>> : v \in CommandValues}
        \cup {<<PingCommand, PingCommand>>, <<EchoCommand, PingCommand>>}

\* The bytes w as they arrive: at once, or in two parts.
Splits(w) ==
    {<<Data(w)>>}
        \cup {<<Data(TakePrefix(w, k)), Data(DropPrefix(w, k))>> : k \in 1..(Len(w) - 1)}

\* What follows them: nothing yet, the peer's close, or an I/O error.
Endings == {<< >>, <<Eof>>, <<IoError>>}

(***************************************************************************)
(* A Connection in use (connection.rs): its owner makes it of a stream and *)
(* calls read_command on it, again after a return of either kind.  The     *)
(* parser's variables hold the parse_resp call of the last read_value.     *)
(***************************************************************************)
InitConn ==
    /\ \/ \E p \in Pipelines : \E cut \in 0..MaxCut :
            /\ cut < Len(EncodeAll(p))
            /\ sent = p
            /\ input = TakePrefix(EncodeAll(p), Len(EncodeAll(p)) - cut)
            /\ sockets = [c \in Conns |-> IF c = 1 THEN <<Data(input)>> ELSE << >>]
       \/ \E p \in CommandPipelines : \E s \in Splits(EncodeAll(p)) : \E e \in Endings :
            /\ sent = p
            /\ input = EncodeAll(p)
            /\ sockets = [c \in Conns |-> IF c = 1 THEN s \o e ELSE << >>]
       \/ \E w \in TestInputs \cup EdgeInputs :
            /\ sent = << >>
            /\ input = w
            /\ sockets = [c \in Conns |-> IF c = 1 THEN <<Data(w)>> ELSE << >>]
    /\ arg = << >>
    /\ buf = << >>
    /\ result = NotCalled
    /\ parsed = << >>
    /\ calls = 0
    /\ reads = [c \in Conns |-> << >>]
    /\ written = [c \in Conns |-> << >>]
    /\ task = [c \in Conns |-> "idle"]
    /\ last = [c \in Conns |-> NoIteration]
    /\ cmd = NoCommand

\* Connection::new(stream), by the task that will use it.
Connect(c) ==
    /\ task[c] = "idle"
    /\ sockets[c] # << >>
    /\ task' = [task EXCEPT ![c] = "running"]
    /\ UNCHANGED <<parserVars, sockets, reads, written, last, cmd>>

\* One call of read_command on connection c, the read of its read_value
\* meeting the socket's next event.
ReadCommand(c) ==
    /\ task[c] = "running"
    /\ sockets[c] # << >>
    /\ LET Returns(value, command, read) ==
               /\ reads' = [reads EXCEPT
                               ![c] = IF Head(sockets[c]).kind = "error" THEN @
                                      ELSE Append(@, read)]
               /\ arg' = value.buffer
               /\ result' = value.parse
               /\ buf' = value.cursor
               /\ parsed' = IF value.parse.kind = "Ok"
                            THEN Append(parsed, value.parse.value)
                            ELSE parsed
               /\ calls' = IF value.parse.kind = "NotCalled" THEN calls ELSE calls + 1
               /\ cmd' = command
               /\ last' = [last EXCEPT
                              ![c] = Iteration(read, value.parse, << >>, command.kind)]
               /\ task' = [task EXCEPT
                              ![c] = IF command.kind = "Panic" THEN "panicked" ELSE @]
           ReadValue(value, empty) ==
               Returns(value, read_command(value.ret), DropPrefix(value.buffer, Len(empty)))
           Into(empty) ==
               /\ sockets' = [sockets EXCEPT ![c] = AfterRead(@, ReadCapacity - Len(empty))]
               /\ ReadValue(read_value(sockets[c], last[c]), empty)
       IN Into(NewBuffer(last[c]))
    /\ UNCHANGED <<sent, input, written>>

NextConn == \E c \in Conns : Connect(c) \/ ReadCommand(c)

SpecConn == InitConn /\ [][NextConn]_vars

(***************************************************************************)
(* The server (main.rs): main accepts connections and spawns one task per  *)
(* connection, each running handle_client on its own socket; the tasks'    *)
(* passes interleave in any order.  A client's socket meets one of the     *)
(* scripts below, a read per event.                                        *)
(***************************************************************************)
EchoNoArgument == ValueArray(1, <<ValueBulk(4, ECHO)>>)
EchoTwoArguments ==
    ValueArray(3, <<ValueBulk(4, ECHO), ValueBulk(1, <<97>>), ValueBulk(1, <<98>>)>>)
EchoNumber == ValueArray(2, <<ValueBulk(4, ECHO), ValueNumber(-1)>>)
EchoTen == ValueArray(2, <<ValueBulk(4, ECHO), ValueBulk(10, TenLetters)>>)
EchoLower == ValueArray(2, <<ValueBulk(4, LowerEcho), ValueBulk(1, <<97>>)>>)
EchoSimpleString == ValueArray(2, <<ValueString(LowerEcho), ValueBulk(1, <<97>>)>>)
PingLower == ValueArray(1, <<ValueBulk(4, LowerPing)>>)
GetCommand == ValueArray(2, <<ValueBulk(3, LowerGet), ValueString(<<107>>)>>)
NameNotUtf8 == ValueArray(1, <<ValueBulk(1, <<255>>)>>)

ServerScripts ==
    { <<Data(Encode(PingCommand)), Data(Encode(EchoCommand)), Eof>>,
      <<Data(Encode(PingLower)), Data(Encode(EchoTwoArguments)), Data(Encode(GetCommand)),
        IoError>>,
      <<Data(Encode(ValueString(<<97>>))), Data(Encode(PingCommand))>>,
      <<Data(Encode(ValueArray(0, << >>))), Data(TakePrefix(Encode(EchoCommand), 14)),
        Data(Encode(EchoLower))>>,
      <<Data(Encode(EchoNoArgument)), Data(Encode(PingCommand))>>,
      \* b':x\r\n'
      <<Data(<<58, 120, 13, 10>>), Data(Encode(PingCommand))>>,
      <<Data(Encode(NameNotUtf8)), Data(Encode(PingCommand))>>,
      <<Data(Encode(EchoSimpleString)), Data(Encode(EchoNumber)), Data(Encode(PingCommand))>>,
      <<Data(EncodeAll(<<EchoCommand, PingCommand>>))>>,
      <<Data(TakePrefix(Encode(PingCommand), 6)), Data(DropPrefix(Encode(PingCommand), 6)),
        Eof>>,
      <<Data(Encode(EchoTen))>>,
      <<Data(EncodeAll(<<PingCommand, PingCommand>>))>>,
      <<Eof>>,
      <<IoError>> }

InitServer ==
    /\ sent = << >>
    /\ input = << >>
    /\ arg = << >>
    /\ buf = << >>
    /\ result = NotCalled
    /\ parsed = << >>
    /\ calls = 0
    /\ sockets \in [Conns -> ServerScripts]
    /\ reads = [c \in Conns |-> << >>]
    /\ written = [c \in Conns |-> << >>]
    /\ task = [c \in Conns |-> "idle"]
    /\ last = [c \in Conns |-> NoIteration]
    /\ cmd = NoCommand

\* A mutant of TaskAlive: a panic of any task stops them all, as it would
\* were handle_client awaited by main and not spawned.
TaskAlive_unless_panic(c) ==
    task[c] = "running" /\ \A d \in Conns : task[d] # "panicked"

\* tokio::spawn: the task of connection c runs on, whatever became of the
\* other tasks.
TaskAlive(c) == task[c] = "running"

\* A mutant of AfterPass: a panic ends every task, as it would were the
\* process to abort on it.
AfterPass_abort(c, branch) ==
    IF branch \in Panics THEN [d \in Conns |-> "panicked"]
    ELSE [task EXCEPT ![c] = IF branch \in Breaks THEN "ended" ELSE @]

\* The tasks after a pass of connection c's task through the branch: a panic
\* unwinds the spawned task it happens in, a break ends its loop.
AfterPass(c, branch) ==
    [task EXCEPT
        ![c] = IF branch \in Panics THEN "panicked"
               ELSE IF branch \in Breaks THEN "ended"
               ELSE @]

\* listener.accept() and tokio::spawn of the connection's task.
Accept(c) ==
    /\ task[c] = "idle"
    /\ task' = [task EXCEPT ![c] = "running"]
    /\ UNCHANGED <<parserVars, sockets, reads, written, last, cmd>>

\* One pass of the loop of connection c's task, its read meeting the
\* socket's next event.
Serve(c) ==
    /\ TaskAlive(c)
    /\ sockets[c] # << >>
    /\ LET Pass(pass) ==
               /\ sockets' = [sockets EXCEPT ![c] = AfterRead(@, ReadCapacity)]
               /\ reads' = [reads EXCEPT
                               ![c] = IF pass.branch = "read error" THEN @
                                      ELSE Append(@, pass.read)]
               /\ written' = [written EXCEPT ![c] = @ \o pass.wrote]
               /\ last' = [last EXCEPT ![c] = pass]
               /\ task' = AfterPass(c, pass.branch)
       IN Pass(handle_client(sockets[c]))
    /\ UNCHANGED <<parserVars, cmd>>

NextServer == \E c \in Conns : Accept(c) \/ Serve(c)

SpecServer == InitServer /\ [][NextServer]_vars

(***************************************************************************)
(* What the claims speak of.                                               *)
(***************************************************************************)
Tags == {TagString, TagArray, TagNumber, TagBulk}

IsSuffix(s, b) == Len(s) <= Len(b) /\ s = DropPrefix(b, Len(b) - Len(s))

\* v's strings hold no CR LF and its declared sizes and lengths are the
\* actual ones, at every depth.
RECURSIVE WellFormed(_)
WellFormed(v) ==
    CASE v.kind \in {"String", "Error"} -> find_crlf(v.s) = -1
      [] v.kind = "Bulk" -> v.n = Len(v.s)
      [] v.kind = "Array" ->
           v.n = Len(v.elements) /\ \A i \in 1..Len(v.elements) : WellFormed(v.elements[i])
      [] OTHER -> TRUE

\* v is an Error or holds one at some depth.
RECURSIVE HasError(_)
HasError(v) ==
    v.kind = "Error" \/ \E i \in 1..Len(v.elements) : HasError(v.elements[i])

\* The client sent the one value v whole, and parse_resp was called on it once.
SentAlone == calls = 1 /\ Len(sent) = 1 /\ input = Encode(sent[1])

\* C1 as stated: round trip for every well-formed Value of any of the five
\* kinds, Error included: parse_resp of the encoding of v returns v and an
\* empty leftover.
C1_RoundTripFiveKinds ==
    (SentAlone /\ WellFormed(sent[1])) => result = Ok(sent[1], << >>)

\* C1, amended: round trip for every well-formed Value built of String,
\* Number, Bulk and Array with no Error at any depth; the encoding of an
\* Error, '-' message CR LF, fails with the unknown-kind failure naming '-'.
C1_RoundTrip ==
    /\ (SentAlone /\ WellFormed(sent[1]) /\ ~HasError(sent[1]))
          => result = Ok(sent[1], << >>)
    /\ (SentAlone /\ sent[1].kind = "Error") => result = Err(UnknownKind, TagError, 0)

\* A nested array with an element inside came back whole.
C1_Witness ==
    /\ SentAlone /\ WellFormed(sent[1]) /\ ~HasError(sent[1])
    /\ sent[1].kind = "Array"
    /\ \E i \in 1..Len(sent[1].elements) :
          sent[1].elements[i].kind = "Array" /\ sent[1].elements[i].elements # << >>
    /\ result = Ok(sent[1], << >>)

\* Every value of the pipeline round-trips, and the read holds all of it.
SentWhole ==
    /\ input = EncodeAll(sent)
    /\ \A i \in 1..Len(sent) : WellFormed(sent[i]) /\ ~HasError(sent[i])

\* C2: the leftover of a success is the suffix of the call's input after the
\* bytes consumed, and at least one byte was consumed; a simple string is the
\* text between the tag and the first CR LF, and its leftover all that follows
\* that CR LF; parsing the leftover again returns the next value sent.
C2_LeftoverSequencing ==
    /\ result.kind = "Ok" =>
          IsSuffix(result.rest, arg) /\ Len(result.rest) < Len(arg)
    /\ (result.kind = "Ok" /\ Head(arg) = TagString) =>
          LET pos == find_crlf(Tail(arg)) IN
          /\ pos >= 0
          /\ result.value = ValueString(TakePrefix(Tail(arg), pos))
          /\ result.rest = DropPrefix(Tail(arg), pos + 2)
    /\ (SentWhole /\ calls \in 1..Len(sent)) =>
          /\ result = Ok(sent[calls], EncodeAll(SubSeq(sent, calls + 1, Len(sent))))
          /\ parsed = SubSeq(sent, 1, calls)

\* The second of two values sent in one read was parsed from the leftover of
\* the first.
C2_Witness ==
    /\ SentWhole /\ Len(sent) = 2 /\ calls = 2
    /\ sent[1].kind = "Bulk" /\ sent[2].kind = "Array"
    /\ arg = Encode(sent[2])
    /\ result = Ok(sent[2], << >>)

\* The bytes after the size line of a bulk string.
AfterLine(b) == DropPrefix(Tail(b), find_crlf(Tail(b)) + 2)

RECURSIVE BulkSized(_)
BulkSized(v) ==
    /\ v.kind = "Bulk" => v.n >= 0 /\ Len(v.s) = v.n
    /\ \A i \in 1..Len(v.elements) : BulkSized(v.elements[i])

\* C3: every Bulk a success returns, at any depth, holds exactly size bytes;
\* the data of a bulk string parsed at the top are the first size bytes after
\* the size line, and the leftover starts after the first CR LF that follows
\* them, whatever stands in between.
C3_BulkData ==
    /\ result.kind = "Ok" => BulkSized(result.value)
    /\ (result.kind = "Ok" /\ Head(arg) = TagBulk) =>
          LET v == result.value
              after == AfterLine(arg)
          IN /\ v.kind = "Bulk"
             /\ v.n >= 0 /\ v.n <= Len(after)
             /\ v.s = TakePrefix(after, v.n)
             /\ find_crlf(DropPrefix(after, v.n)) >= 0
             /\ result.rest =
                   DropPrefix(after, v.n + find_crlf(DropPrefix(after, v.n)) + 2)

\* A bulk string of size 1 sent with the data "abc" came back as "a", the
\* filler "bc" consumed.
C3_Witness ==
    /\ calls = 1
    /\ sent = <<ValueBulk(1, <<97, 98, 99>>)>>
    /\ input = Encode(sent[1])
    /\ result = Ok(ValueBulk(1, <<97>>), << >>)

RECURSIVE LenIsDeclared(_)
LenIsDeclared(v) ==
    /\ v.kind = "Array" => Len(v.elements) = v.n
    /\ \A i \in 1..Len(v.elements) : LenIsDeclared(v.elements[i])

RECURSIVE LenIsLoopCount(_)
LenIsLoopCount(v) ==
    /\ v.kind = "Array" => Len(v.elements) = (IF v.n < 0 THEN 0 ELSE v.n)
    /\ \A i \in 1..Len(v.elements) : LenIsLoopCount(v.elements[i])

\* C4 as stated: every Array a success returns, at any depth, has as many
\* elements as its declared length, negative lengths included.
C4_LenEqualsDeclared == result.kind = "Ok" => LenIsDeclared(result.value)

\* C4, amended: every Array a success returns, at any depth, has as many
\* elements as its declared length when that is zero or more, and no element
\* when it is negative (the loop 0..len runs no iteration).
C4_LenEqualsLoopCount == result.kind = "Ok" => LenIsLoopCount(result.value)

\* An array declared with length -1 was returned with no element, the value
\* that followed it left in the leftover.
C4_Witness ==
    /\ result.kind = "Ok" /\ result.value.kind = "Array"
    /\ result.value.n = -1 /\ result.value.elements = << >>
    /\ result.rest # << >>

\* v parses element by element: its leaves round-trip and none of its arrays
\* declares fewer elements than it holds.
RECURSIVE Parseable(_)
Parseable(v) ==
    CASE v.kind \in {"String", "Number", "Bulk"} -> WellFormed(v)
      [] v.kind = "Array" ->
           v.n >= Len(v.elements) /\ \A i \in 1..Len(v.elements) : Parseable(v.elements[i])
      [] OTHER -> FALSE

\* Some array of v, at any depth, declares more elements than it holds.
RECURSIVE Short(_)
Short(v) ==
    /\ v.kind = "Array"
    /\ v.n > Len(v.elements) \/ \E i \in 1..Len(v.elements) : Short(v.elements[i])

RECURSIVE NotPartial(_)
NotPartial(v) ==
    /\ v.kind = "Array" => Len(v.elements) >= v.n
    /\ \A i \in 1..Len(v.elements) : NotPartial(v.elements[i])

\* C5: no Array a success returns, at any depth, holds fewer elements than it
\* declares; an array sent with fewer elements than it or an array inside it
\* declares, the input ending after the last of them, fails with "empty
\* buffer".
C5_ShortArrayFails ==
    /\ result.kind = "Ok" => NotPartial(result.value)
    /\ (SentAlone /\ Parseable(sent[1]) /\ Short(sent[1]))
          => result = Err(EmptyBuffer, 0, 0)

\* An array whose inner array declares one element more than it holds failed
\* with "empty buffer".
C5_Witness ==
    /\ SentAlone /\ Parseable(sent[1])
    /\ sent[1].n = 1 /\ Len(sent[1].elements) = 1
    /\ Short(sent[1].elements[1]) /\ sent[1].elements[1].elements # << >>
    /\ result = Err(EmptyBuffer, 0, 0)

\* The call's input is a tag followed by a line that from_str_radix accepts.
HasNumberLine(b) ==
    /\ b # << >>
    /\ find_crlf(Tail(b)) >= 0
    /\ IsUtf8(TakePrefix(Tail(b), find_crlf(Tail(b))))
    /\ from_str_radix(TakePrefix(Tail(b), find_crlf(Tail(b)))).ok

NumberLine(b) == from_str_radix(TakePrefix(Tail(b), find_crlf(Tail(b)))).n

\* C6: a bulk string whose declared size exceeds the bytes left after the
\* size line less two fails with the overrun failure naming that size and
\* that count; no other bulk string does, and no overrun failure, at any
\* depth, names a size that fits.
C6_BulkOverrun ==
    /\ (calls >= 1 /\ HasNumberLine(arg) /\ Head(arg) = TagBulk) =>
          LET declaredSize == NumberLine(arg)
              remaining == Len(AfterLine(arg))
          IN IF declaredSize > remaining - 2
             THEN result = Err(BulkOverrun, declaredSize, remaining)
             ELSE result.error.msg # BulkOverrun
    /\ result.error.msg = BulkOverrun => result.error.a > result.error.b - 2

\* "$5\r\nh\r\n" failed with the overrun failure naming 5 and 3.
C6_Witness ==
    /\ arg = <<TagBulk, 53, CR, LF, 104, CR, LF>>
    /\ result = Err(BulkOverrun, 5, 3)

\* C7: wherever an integer is parsed (a Number, a bulk size, an array
\* length), a line that is no i64 makes the call return a failure, and a
\* Number line that is one yields that number.
C7_InvalidIntegerFails ==
    (/\ calls >= 1 /\ arg # << >> /\ Head(arg) \in {TagNumber, TagBulk, TagArray}
     /\ find_crlf(Tail(arg)) >= 0
     /\ IsUtf8(TakePrefix(Tail(arg), find_crlf(Tail(arg))))) =>
        IF HasNumberLine(arg)
        THEN Head(arg) = TagNumber => result = Ok(ValueNumber(NumberLine(arg)), AfterLine(arg))
        ELSE result.kind = "Err"

\* C8: an empty cursor fails with "empty buffer" and stays empty; a first byte
\* that is no tag fails with the unknown-kind failure naming it, and the
\* cursor is left holding the bytes after it.
C8_TagDispatch ==
    /\ (calls >= 1 /\ arg = << >>) => result = Err(EmptyBuffer, 0, 0) /\ buf = << >>
    /\ (calls >= 1 /\ arg # << >> /\ Head(arg) \notin Tags) =>
          result = Err(UnknownKind, Head(arg), 0) /\ buf = Tail(arg)

\* ")Foo\r\n" failed naming ')' and left "Foo\r\n".
C8_Witness ==
    /\ arg = <<41, 70, 111, 111, CR, LF>>
    /\ result = Err(UnknownKind, 41, 0)
    /\ buf = <<70, 111, 111, CR, LF>>

\* C9: a simple string or number with no CR LF in its payload fails with the
\* missing-terminator failure, the payload left in the cursor; a bulk string
\* whose size fits but with no CR LF after its data fails with the
\* missing-terminator failure of bulk strings.
C9_MissingTerminator ==
    /\ (calls >= 1 /\ arg # << >> /\ Head(arg) \in {TagString, TagNumber}
          /\ find_crlf(Tail(arg)) = -1) =>
          result = Err(StringNoCrlf, 0, 0) /\ buf = Tail(arg)
    /\ (/\ calls >= 1 /\ HasNumberLine(arg) /\ Head(arg) = TagBulk
        /\ NumberLine(arg) >= 0 /\ NumberLine(arg) <= Len(AfterLine(arg)) - 2
        /\ find_crlf(DropPrefix(AfterLine(arg), NumberLine(arg))) = -1) =>
          result = Err(BulkNoCrlf, 0, 0)

\* "$1\r\nabc" failed for want of a terminator after its data.
C9_Witness ==
    /\ arg = <<TagBulk, 49, CR, LF, 97, 98, 99>>
    /\ result = Err(BulkNoCrlf, 0, 0)

\* "+Test" failed for want of a terminator and left "Test".
C9_WitnessString ==
    /\ arg = <<TagString, 84, 101, 115, 116>>
    /\ result = Err(StringNoCrlf, 0, 0)
    /\ buf = <<84, 101, 115, 116>>

\* C10: an empty input, an unknown kind and a simple string with no CR LF are
\* each reported as a returned pair whose value is a Value::Error, never as a
\* failed Result.
C10_FailuresAreErrorValues ==
    (/\ calls >= 1
     /\ \/ arg = << >>
        \/ Head(arg) \notin Tags
        \/ Head(arg) = TagString /\ find_crlf(Tail(arg)) = -1) =>
        result.kind = "Ok" /\ result.value.kind = "Error"

\* read_command was called, its read_value parsed an Array declared with one
\* element or more, and v is that array.
ReadAnArray(v) ==
    /\ cmd.kind # "NotCalled"
    /\ result.kind = "Ok"
    /\ result.value = v
    /\ v.kind = "Array"
    /\ v.n >= 1
    /\ Len(v.elements) >= 1

\* v is a SimpleString, or a BulkString whose data is UTF-8.
IsText(v) == v.kind = "String" \/ (v.kind = "Bulk" /\ IsUtf8(v.s))

\* u is the text t with its letters in upper case: u has no letter a..z and
\* differs from t only where t has one, by that letter's case.
IsUpperCased(u, t) ==
    /\ Len(u) = Len(t)
    /\ \A i \in 1..Len(t) :
          /\ ~(u[i] >= LowerA /\ u[i] <= LowerZ)
          /\ \/ u[i] = t[i]
             \/ t[i] >= LowerA /\ t[i] <= LowerZ /\ u[i] + LowerA = t[i] + UpperA

\* C11: read_command on a parsed Array of declared length len >= 1 whose
\* first element is a SimpleString or a UTF-8 BulkString returns that
\* element's text upper-cased as the command name (so names differing only in
\* letter case give one name) and exactly the other len - 1 elements,
\* unchanged and in order, as the arguments; the bytes
\* "*1\r\n$4\r\nPING\r\n" read at once give ("PING", []).
C11_ReadCommand ==
    /\ \A v \in {result.value} :
          (ReadAnArray(v) /\ IsText(Head(v.elements)))
              => /\ cmd.kind = "Ok"
                 /\ IsUpperCased(cmd.name, Head(v.elements).s)
                 /\ Len(cmd.args) = v.n - 1
                 /\ \A i \in 1..Len(cmd.args) : cmd.args[i] = v.elements[i + 1]
    /\ (cmd.kind # "NotCalled" /\ arg = Encode(PingCommand)) => cmd = CommandOk(PING, << >>)

\* A command named in lower case, with arguments, has been read: its name
\* came back in upper case and its arguments as they were sent.
C11_Witness ==
    /\ ReadAnArray(result.value)
    /\ Head(result.value.elements).s = LowerEcho
    /\ cmd.name = ECHO
    /\ cmd.args = <<ValueBulk(1, <<97>>)>>

\* The error a bail! or a ? of the connection layer returns for the message.
ErrorOf(msg) == Err(msg, 0, 0).error

\* C12: read_command returns no command and fails when the value read is
\* not an Array, is an Array declared with fewer than one element (zero or a
\* negative length), or is an Array whose first element is neither a
\* SimpleString nor a BulkString (an Integer, a nested Array); and a parse
\* failure inside read_value comes back unchanged, as the empty-buffer
\* failure of "*2\r\n$4\r\nPING\r\n" does.
C12_ReadCommandFails ==
    /\ (cmd.kind # "NotCalled" /\ result.kind = "Ok" /\ result.value.kind # "Array")
          => cmd = CommandErr(ErrorOf(NotAnArray))
    /\ (cmd.kind # "NotCalled" /\ result.kind = "Ok" /\ result.value.kind = "Array"
            /\ result.value.n < 1)
          => cmd = CommandErr(ErrorOf(EmptyCommand))
    /\ \A v \in {result.value} :
          (ReadAnArray(v) /\ Head(v.elements).kind \notin {"String", "Bulk"})
              => cmd = CommandErr(ErrorOf(NotAString))
    /\ (cmd.kind # "NotCalled" /\ result.kind = "Err") => cmd = CommandErr(result.error)
    /\ (cmd.kind # "NotCalled" /\ arg = <<42, 50, 13, 10, 36, 52, 13, 10, 80, 73, 78, 71, 13, 10>>)
          => cmd = CommandErr(ErrorOf(EmptyBuffer))

\* An array that starts with a nested array has been read as a command, and
\* the call failed.
C12_Witness ==
    /\ ReadAnArray(result.value)
    /\ Head(result.value.elements).kind = "Array"
    /\ cmd.kind = "Err"

\* The other cases of C12: a value that is no array, an array declared with a
\* negative length, an Integer in the first place, a parse failure.
C12_WitnessNotAnArray == cmd.kind = "Err" /\ result.kind = "Ok" /\ result.value.kind = "Bulk"
C12_WitnessNegative == cmd.kind = "Err" /\ result.kind = "Ok" /\ result.value = ValueArray(-1, << >>)
C12_WitnessInteger ==
    ReadAnArray(result.value) /\ Head(result.value.elements).kind = "Number" /\ cmd.kind = "Err"
C12_WitnessParseFailure ==
    cmd = CommandErr(ErrorOf(EmptyBuffer)) /\ arg = TakePrefix(Encode(EchoCommand), 14)

\* The bytes the last read of connection c received.
LastRead(c) == reads[c][Len(reads[c])]

\* Connection c has made a read_value call that reached the parser.
HasParsed(c) == last[c].parse.kind # "NotCalled" /\ reads[c] # << >>

\* C13: leftover bytes are dropped across reads.  A read_value call whose
\* read delivers a complete value and further bytes returns the first value
\* only, and no later call on the connection parses those bytes: every call
\* hands the parser the bytes of its own read and nothing else, so a
\* connection never returns more values than it has made reads.
C13_LeftoverDropped ==
    \A c \in Conns :
        /\ HasParsed(c) =>
              /\ arg = LastRead(c)
              /\ result = parse_resp(LastRead(c)).res
              /\ last[c].parse = result
        /\ task[c] # "idle" => Len(parsed) <= Len(reads[c])

\* Two commands came in one read, the first was returned, and a later call
\* on the same connection has read and parsed other bytes.
C13_Witness ==
    /\ Len(reads[1]) = 2
    /\ parse_resp(reads[1][1]).res.kind = "Ok"
    /\ parse_resp(reads[1][1]).res.rest # << >>
    /\ parsed = <<EchoCommand>>
    /\ HasParsed(1)
    /\ result.kind = "Err"

IsProperPrefix(p, b) == Len(p) < Len(b) /\ p = TakePrefix(b, Len(p))

\* The last read of connection c received a part of a value the client sent
\* whole: some of its first bytes, not all.
ReadPartOf(c, v) ==
    /\ HasParsed(c)
    /\ WellFormed(v)
    /\ LastRead(c) # << >>
    /\ IsProperPrefix(LastRead(c), Encode(v))

\* C17: a command split over several reads is never completed from later
\* reads.  A call makes one read and parses its bytes only: when they are a
\* proper prefix of a value the call fails with a parse failure, which
\* read_command returns, and when the first read of a connection held only a
\* part of the one command sent, no call on the connection returns it.
C17_SplitNeverCompleted ==
    \A c \in Conns :
        /\ task[c] # "idle" => calls <= Len(reads[c])
        /\ \A i \in 1..Len(sent) :
              ReadPartOf(c, sent[i]) => result.kind = "Err" /\ cmd = CommandErr(result.error)
        /\ (Len(sent) = 1 /\ WellFormed(sent[1]) /\ reads[c] # << >>
                /\ IsProperPrefix(reads[c][1], Encode(sent[1])))
              => \A j \in 1..Len(parsed) : parsed[j] # sent[1]

\* A command arrived in two reads, both have been read, and both calls failed:
\* the first on the part it had, the second on the rest.
C17_Witness ==
    /\ sent = <<EchoCommand>>
    /\ Len(reads[1]) = 2
    /\ reads[1][1] \o reads[1][2] = Encode(EchoCommand)
    /\ Len(reads[1][1]) > 14
    /\ parsed = << >>
    /\ calls = 2
    /\ cmd.kind = "Err"

\* The last pass of connection c's task met a failure of the connection
\* layer: a read of zero bytes, a transport error, a parse failure, a value
\* that is no Array declared with one element or more, or a command name that
\* is no string.
FailedRead(c) ==
    \/ last[c].branch \in {"closed", "read error", "parse failure", "parse panic",
                           "not an array", "empty array", "name not utf-8"}
    \/ last[c].branch = "name not bulk" /\ last[c].parse.value.elements[1].kind # "String"

\* C14 as stated: a connection-layer failure while reading a command ends the
\* connection's processing loop: after it the connection's task makes no
\* further read and writes no further reply.
C14_FailureEndsLoop ==
    [][\A c \in Conns : FailedRead(c) => reads'[c] = reads[c] /\ written'[c] = written[c]]_vars

\* What handle_client does keep of it: the loop ends on a read of zero bytes
\* and on a transport error, and on a panic of the parser or of the name's
\* conversion.
C14_LoopEndsOnClose ==
    \A c \in Conns :
        last[c].branch \in {"closed", "read error", "parse panic", "name not utf-8"}
            => task[c] \in {"ended", "panicked"}

\* The last pass of connection c's task parsed an ECHO command, its name a
\* bulk string in any letter case, with the one bulk-string argument d.
EchoOf(c, d) ==
    /\ last[c].parse.kind = "Ok"
    /\ last[c].parse.value.kind = "Array"
    /\ last[c].parse.value.n >= 1
    /\ Len(last[c].parse.value.elements) = 2
    /\ last[c].parse.value.elements[1].kind = "Bulk"
    /\ IsUpperCased(ECHO, last[c].parse.value.elements[1].s)
    /\ last[c].parse.value.elements[2].kind = "Bulk"
    /\ last[c].parse.value.elements[2].s = d

C15_WitnessTen ==
    \E c \in Conns :
        /\ EchoOf(c, TenLetters)
        /\ last[c].wrote = <<36, 49, 48, 13, 10>> \o TenLetters \o CRLF

C16_UnreachableNeverRuns ==
    \A c \in Conns : last[c].branch \notin {"no first element", "ECHO: no argument"}

\* The half of it that holds: a parsed array of len >= 1 has a first element.
C16_FirstElementExists ==
    \A c \in Conns : last[c].branch # "no first element"

\* What a task running handle_client alone writes for the reads rs, read after
\* read.
RECURSIVE Replies(_)
Replies(rs) ==
    IF rs = << >> THEN << >>
    ELSE Replies(TakePrefix(rs, Len(rs) - 1)) \o handle_client(<<Data(rs[Len(rs)])>>).wrote

\* C18: connections are isolated.  With one task per accepted connection and
\* their steps in any order, what is written on a connection is what its own
\* reads call for, a task ends or panics by a pass of its own only, and
\* whatever became of the other tasks (failed, closed, panicked) a connection
\* waiting is still accepted and a task that has not ended still runs.
C18_Isolation ==
    \A c \in Conns :
        /\ written[c] = Replies(reads[c])
        /\ reads[c] # << >> => last[c] = handle_client(<<Data(LastRead(c))>>)
                                  \/ last[c].branch = "read error"
        /\ task[c] = "panicked" <=> last[c].branch \in Panics
        /\ task[c] = "ended" <=> last[c].branch \in Breaks
        /\ task[c] = "idle" => ENABLED Accept(c)
        /\ task[c] = "running" => TaskAlive(c)

\* One task has panicked and another, still running, has answered two
\* commands and has more to read.
C18_Witness ==
    \E c, d \in Conns :
        /\ task[c] = "panicked"
        /\ last[c].branch = "ECHO: no argument"
        /\ task[d] = "running"
        /\ written[d] = Pong \o WrongArguments
        /\ sockets[d] # << >>

\* The bytes the last call consumed: its input less the leftover it returned.
Consumed == TakePrefix(arg, Len(arg) - Len(result.rest))

\* The bytes the consumed prefix is followed by in C19: none,
\* any one byte, a CR LF, a value, and the leftover itself.
Suffixes ==
    {s \in RawInputs : Len(s) <= 1}
        \cup {CRLF, <<TagString, 97, CR, LF>>, <<TagBulk, 49, CR, LF, 97, CR, LF>>}
        \cup {result.rest}

\* C19: a successful parse depends only on the bytes it consumed.  When
\* parse_resp on x returns (v, r) and c is the consumed prefix, x = c ++ r,
\* then parse_resp on c ++ s returns (v, s) for every byte sequence s, and on
\* c alone it returns v and an empty leftover.
C19_ConsumedPrefix ==
    result.kind = "Ok" =>
        /\ arg = Consumed \o result.rest
        /\ \A s \in Suffixes : parse_resp(Consumed \o s).res = Ok(result.value, s)
        /\ parse_resp(Consumed).res = Ok(result.value, << >>)

\* A bulk string followed by other bytes has been parsed: its consumed
\* prefix ends before them.
C19_Witness ==
    /\ result.kind = "Ok"
    /\ result.value.kind = "Bulk"
    /\ result.rest # << >>
    /\ Len(Consumed) = 4 + result.value.n + 2
    /\ calls = 1

\* The number of parse_resp calls made within parse_resp(bytes), at every
\* depth: one for each iteration of a parse_array loop, as the loop runs.
RECURSIVE child_parses(_), loop_parses(_, _)
child_parses(bytes) ==
    IF Len(bytes) < 2 \/ Head(bytes) # TagArray THEN 0
    ELSE LET num == parse_number(DropPrefix(bytes, 1)).res IN
         IF num.kind # "Ok" THEN 0 ELSE loop_parses(num.value.n, num.rest)

loop_parses(todo, leftover_data) ==
    IF todo <= 0 THEN 0
    ELSE LET element == parse_resp(leftover_data).res IN
         1 + child_parses(leftover_data)
           + (IF element.kind = "Ok" THEN loop_parses(todo - 1, element.rest) ELSE 0)

\* Every parse_resp call made for bytes, itself included, fails or returns a
\* leftover shorter than the bytes it was given.
RECURSIVE EachParseAdvances(_), EachIterationAdvances(_, _)
EachParseAdvances(bytes) ==
    /\ parse_resp(bytes).res.kind = "Ok" => Len(parse_resp(bytes).res.rest) < Len(bytes)
    /\ (Len(bytes) >= 2 /\ Head(bytes) = TagArray
            /\ parse_number(DropPrefix(bytes, 1)).res.kind = "Ok")
          => EachIterationAdvances(parse_number(DropPrefix(bytes, 1)).res.value.n,
                                   parse_number(DropPrefix(bytes, 1)).res.rest)

EachIterationAdvances(todo, leftover_data) ==
    \/ todo <= 0
    \/ /\ EachParseAdvances(leftover_data)
       /\ parse_resp(leftover_data).res.kind = "Ok"
             => EachIterationAdvances(todo - 1, parse_resp(leftover_data).res.rest)

\* The number of values in v, v included: the parses that returned them.
RECURSIVE Nodes(_), NodesOfAll(_)
Nodes(v) == 1 + NodesOfAll(v.elements)

NodesOfAll(vs) == IF vs = << >> THEN 0 ELSE Nodes(Head(vs)) + NodesOfAll(Tail(vs))

\* C20: parse_resp terminates on every finite input, whatever array length
\* is declared and however deep the nesting.  Every recursive call and every
\* iteration of the array loop fails or consumes at least one byte, so a
\* success returns a leftover strictly shorter than the input, the values
\* it returns are no more than the bytes it consumed, and the child parses
\* made, failed ones included, are no more than the bytes of the input.
C20_Terminates ==
    result.kind # "NotCalled" =>
        /\ EachParseAdvances(arg)
        /\ child_parses(arg) <= Len(arg)
        /\ result.kind = "Ok" =>
              /\ Len(result.rest) < Len(arg)
              /\ Nodes(result.value) <= Len(Consumed)

\* An array declared with nine elements and followed by one has been parsed:
\* two child parses were made and the second one failed on the empty buffer.
C20_Witness ==
    /\ arg = <<42, 57, 13, 10, 43, 13, 10>>
    /\ result = Err(EmptyBuffer, 0, 0)
    /\ child_parses(arg) = 2

\* A nested array has been parsed: more than one level of child parses.
C20_WitnessNested ==
    /\ result.kind = "Ok"
    /\ Nodes(result.value) = 3
    /\ result.value.kind = "Array"
    /\ Len(result.value.elements) = 1
    /\ child_parses(arg) = 2

\* The last call was made on a bulk string whose size line holds a negative
\* number.
NegativeBulkSize ==
    /\ result.kind # "NotCalled"
    /\ HasNumberLine(arg)
    /\ Head(arg) = TagBulk
    /\ NumberLine(arg) < 0

\* The bytes the splits ss remove in all.
RECURSIVE SplitTotal(_)
SplitTotal(ss) == IF ss = << >> THEN 0 ELSE Head(ss).n + SplitTotal(Tail(ss))

\* C21: for every input, every prefix removal or split the parser performs on
\* a cursor (the tag byte, the string payload and its two-byte terminator,
\* the bulk data of the declared size, the bytes through the bulk
\* terminator) asks for a count from 0 to the cursor's length, so the byte
\* cursor never goes out of bounds, and the bytes a success consumed are
\* those its splits removed; and a negative declared bulk size leads to a
\* returned failure, with no split asked for the data.
C21_SplitsInBounds ==
    result.kind # "NotCalled" =>
        /\ \A i \in 1..Len(splits_resp(arg)) :
              /\ splits_resp(arg)[i].n >= 0
              /\ splits_resp(arg)[i].n <= splits_resp(arg)[i].len
        /\ result.kind = "Ok" => SplitTotal(splits_resp(arg)) = Len(Consumed)
        /\ NegativeBulkSize =>
              /\ result.kind = "Err"
              /\ result.error.msg \in {BulkOverrun, TryFromIntError}
              /\ Len(splits_resp(arg)) = 3

\* A bulk string of size -1 with bytes after its size line has been parsed:
\* the size passed the comparison with the bytes left and its conversion
\* failed, after the splits of the tag, the size line and its terminator.
C21_Witness ==
    /\ NegativeBulkSize
    /\ NumberLine(arg) = -1
    /\ Len(arg) > 5
    /\ result = Err(TryFromIntError, 0, 0)
    /\ splits_resp(arg) = <<Split(1, Len(arg)), Split(2, Len(arg) - 1), Split(2, Len(arg) - 3)>>

\* A bulk string with filler before its terminator has been parsed: five
\* splits, the last one through the terminator.
C21_WitnessBulk ==
    /\ result.kind = "Ok"
    /\ result.value.kind = "Bulk"
    /\ Len(splits_resp(arg)) = 5
    /\ splits_resp(arg)[5].n > 2
    /\ splits_resp(arg)[5].n = splits_resp(arg)[5].len

\* An array has been parsed: the splits of its elements are among its own.
C21_WitnessArray ==
    /\ result.kind = "Ok"
    /\ result.value.kind = "Array"
    /\ Len(result.value.elements) = 2
    /\ Len(splits_resp(arg)) >= 9

====
